---- MODULE Spec2Model ----
(***************************************************************************)
(* Model of the retrieval-grounded judgment pipeline of NHBank_AI:         *)
(*   agent/chat_manager.py  (ChatManager: conversation state, turns,       *)
(*                           judgment)                                     *)
(*   retriever/search.py    (RAGRetriever: search, get_context)            *)
(*   judge/types.py         (JudgeDecision, SEVERITY_LABELS)               *)
(*   judge/chain.py         (judge_report), judge/calibrate.py             *)
(*   agent/orchestrator.py  (Orchestrator), app/main.py (upload_evidence)  *)
(*                                                                         *)
(* Text is modelled as a sequence of symbols.  A symbol is either one      *)
(* character class of the input ("dq" the straight double quote, "lq" and  *)
(* "rq" the curly opening and closing double quotes, "sp" a blank, "nl" a  *)
(* line break, "a", "b" ordinary letters) or a fixed piece of text that    *)
(* the code treats as a unit ("pdf" is the four characters .pdf, "PANJEONG"*)
(* and "PANDAN" are the two trigger words, and the fixed pieces of the     *)
(* prompts and reports).  Ordinary letters never contain a dot, a quote or *)
(* a blank, so the regular expressions of the code act on symbols exactly  *)
(* as they act on the characters the symbols stand for.                    *)
(***************************************************************************)
EXTENDS Integers, Sequences, FiniteSets, TLC

VARIABLES
    conversation_states, \* ChatManager.conversation_states: id -> state
    vectorstore,         \* RAGRetriever.vectorstore: "none" or "ready"
    calls,               \* position and locals of each call in flight
    ncalls,              \* number of calls started (bounds the run)
    ex_msg, ex_out,      \* input / result of _extract_doc_id_from_message
    gc_results, gc_budget, gc_out, \* input / result of get_context
    jr_complaint, jr_api, jr_out   \* input / result of judge_report

vars == <<conversation_states, vectorstore, calls, ncalls,
          ex_msg, ex_out, gc_results, gc_budget, gc_out,
          jr_complaint, jr_api, jr_out>>

convVars == <<conversation_states, vectorstore, calls, ncalls>>
exVars == <<ex_msg, ex_out>>
gcVars == <<gc_results, gc_budget, gc_out>>
jrVars == <<jr_complaint, jr_api, jr_out>>

----------------------------------------------------------------------------
(* Bounds of the model *)

MaxMsgLen == 5      \* longest message given to the extractor
MaxResults == 4     \* longest result list given to get_context
MaxBudget == 4      \* largest token budget given to get_context
MaxCalls == 3       \* calls started in one run of the conversation model
MaxConcCalls == 2   \* calls started in one run of the concurrent model
MaxComplaintLen == 2 \* longest complaint given to judge_report

----------------------------------------------------------------------------
(* Text helpers *)

\* Optional[str]: None, or a string
None == [some |-> FALSE, val |-> << >>]
Some(s) == [some |-> TRUE, val |-> s]

\* Python truthiness of an Optional[str]: None and "" are falsy
Truthy(o) == o.some /\ o.val # << >>

IsPrefix(s, t) == Len(s) <= Len(t) /\ SubSeq(t, 1, Len(s)) = s

\* Python's `s in t` on strings
Contains(t, s) ==
    \E i \in 0..(Len(t) - Len(s)) : SubSeq(t, i + 1, i + Len(s)) = s

Whitespace == {"sp", "nl"}
OpenQuote == {"dq", "lq"}       \* straight or opening curly double quote
CloseQuote == {"dq", "rq"}      \* straight or closing curly double quote

\* All strings over alphabet S of length at most n
RECURSIVE StringsUpTo(_, _)
StringsUpTo(S, n) ==
    IF n = 0 THEN {<< >>}
    ELSE LET shorter == StringsUpTo(S, n - 1)
         IN  shorter \cup {Append(s, c) : s \in {t \in shorter : Len(t) = n - 1}, c \in S}

----------------------------------------------------------------------------
(* ChatManager._extract_doc_id_from_message:                               *)
(*   re.search of  Q([^Q]+\.pdf)Q | Q([^Q]+)Q | (\S+\.pdf)  in message,   *)
(*   Q an opening quote (OpenQuote), a closing or excluded one (CloseQuote)*)
(* re.search takes the leftmost position at which some alternative         *)
(* matches and, at that position, the first alternative that matches.      *)

\* index of the first closing quote after position i, or 0
FirstClose(m, i) ==
    LET js == {j \in (i + 1)..Len(m) : m[j] \in CloseQuote}
    IN  IF js = {} THEN 0 ELSE CHOOSE j \in js : \A k \in js : j <= k

\* alternative 1 at position i: opening quote, [^Q]+ , .pdf, closing quote
Alt1At(m, i) ==
    LET c == FirstClose(m, i)
    IN  IF m[i] \in OpenQuote /\ c >= i + 3 /\ m[c - 1] = "pdf"
        THEN Some(SubSeq(m, i + 1, c - 1)) ELSE None

\* alternative 2 at position i: opening quote, [^Q]+ , closing quote
Alt2At(m, i) ==
    LET c == FirstClose(m, i)
    IN  IF m[i] \in OpenQuote /\ c >= i + 2
        THEN Some(SubSeq(m, i + 1, c - 1)) ELSE None

\* alternative 3 at position i: \S+ (greedy) followed by .pdf
Alt3At(m, i) ==
    LET stops == {j \in i..Len(m) : m[j] \in Whitespace}
        last == IF stops = {} THEN Len(m)
                ELSE (CHOOSE j \in stops : \A k \in stops : j <= k) - 1
        es == {e \in (i + 1)..last : m[e] = "pdf"}
    IN  IF es = {} THEN None
        ELSE Some(SubSeq(m, i, CHOOSE e \in es : \A k \in es : k <= e))

\* a slip: the bare-token alternative written first in the pattern
MatchAt_BareFirst(m, i) ==
    IF Alt3At(m, i).some THEN Alt3At(m, i)
    ELSE IF Alt1At(m, i).some THEN Alt1At(m, i)
    ELSE Alt2At(m, i)

\* the groups of the match attempted at position i, first non-None group
MatchAt(m, i) ==
    IF Alt1At(m, i).some THEN Alt1At(m, i)
    ELSE IF Alt2At(m, i).some THEN Alt2At(m, i)
    ELSE Alt3At(m, i)

RECURSIVE SearchFrom(_, _)
SearchFrom(m, i) ==
    IF i > Len(m) THEN None
    ELSE IF MatchAt(m, i).some THEN MatchAt(m, i)
    ELSE SearchFrom(m, i + 1)

_extract_doc_id_from_message(message) == SearchFrom(message, 1)

----------------------------------------------------------------------------
(* RAGRetriever.get_context, after the search *)

DefaultMaxTokens == 2000

\* len(content.split()): the number of maximal runs of non-blank symbols
TokenCount(content) ==
    Cardinality({i \in 1..Len(content) :
        /\ content[i] \notin Whitespace
        /\ (i = 1 \/ content[i - 1] \in Whitespace)})

\* f"{score:.2f}" of a score given in hundredths
Fmt2(h) == <<ToString(h \div 100), ".", ToString((h % 100) \div 10), ToString(h % 10)>>

\* a slip: `continue` instead of `break` on the passage that would overflow
RECURSIVE ContextPartsFrom_Continue(_, _, _)
ContextPartsFrom_Continue(results, total_tokens, max_tokens) ==
    IF results = << >> THEN << >>
    ELSE LET result_tokens == TokenCount(Head(results).content)
         IN  IF total_tokens + result_tokens > max_tokens
             THEN ContextPartsFrom_Continue(Tail(results), total_tokens, max_tokens)
             ELSE <<Head(results)>> \o
                  ContextPartsFrom_Continue(Tail(results), total_tokens + result_tokens,
                                            max_tokens)

\* the loop of get_context: the results whose blocks are put in context_parts
RECURSIVE ContextPartsFrom(_, _, _)
ContextPartsFrom(results, total_tokens, max_tokens) ==
    IF results = << >> THEN << >>
    ELSE LET result_tokens == TokenCount(Head(results).content)
         IN  IF total_tokens + result_tokens > max_tokens
             THEN << >>
             ELSE <<Head(results)>> \o
                  ContextPartsFrom(Tail(results), total_tokens + result_tokens, max_tokens)

\* one labeled block: source, relevance to two decimals, content
FormatBlock(result) ==
    <<"nl", "SRC: ">> \o result.source \o <<"nl", "SCORE: ">> \o Fmt2(result.score)
        \o <<"nl", "CONTENT: ">> \o result.content \o <<"nl">>

\* "\n".join(context_parts)
RECURSIVE JoinBlocks(_)
JoinBlocks(parts) ==
    IF parts = << >> THEN << >>
    ELSE IF Len(parts) = 1 THEN FormatBlock(parts[1])
    ELSE FormatBlock(Head(parts)) \o <<"nl">> \o JoinBlocks(Tail(parts))

\* the string get_context returns around the joined blocks
DebugWrapper(num_results, real_context) ==
    <<"DEBUG START", "nl", "Search found ", ToString(num_results), " results.", "nl",
      "The generated context is:", "nl", "vvvv", "nl">>
        \o real_context \o <<"nl", "^^^^", "nl", "DEBUG END", "nl">>

GetContextOf(results, max_tokens) ==
    DebugWrapper(Len(results), JoinBlocks(ContextPartsFrom(results, 0, max_tokens)))

----------------------------------------------------------------------------
(* ChatManager._extract_doc_id_from_context: re.search("SRC: (.+)"), strip *)

RECURSIVE LStrip(_)
LStrip(s) == IF s # << >> /\ Head(s) \in Whitespace THEN LStrip(Tail(s)) ELSE s

RECURSIVE RStrip(_)
RStrip(s) ==
    IF s # << >> /\ s[Len(s)] \in Whitespace THEN RStrip(SubSeq(s, 1, Len(s) - 1)) ELSE s

Strip(s) == RStrip(LStrip(s))

\* the symbols from position i up to the next line break (or the end)
LineFrom(s, i) ==
    LET nls == {j \in i..Len(s) : s[j] = "nl"}
        e == IF nls = {} THEN Len(s) ELSE (CHOOSE j \in nls : \A k \in nls : j <= k) - 1
    IN  SubSeq(s, i, e)

_extract_doc_id_from_context(context) ==
    LET hits == {i \in 1..Len(context) :
                    context[i] = "SRC: " /\ LineFrom(context, i + 1) # << >>}
    IN  IF hits = {} THEN None
        ELSE Some(Strip(LineFrom(context, (CHOOSE i \in hits : \A k \in hits : i <= k) + 1)))

----------------------------------------------------------------------------
(* RAGRetriever.search: the Policy Index is an opaque similarity search.   *)
(* A query returns at most k passages in descending relevance; with a      *)
(* doc_id the index keeps only passages whose source equals it.            *)

SearchK == 5

\* the passages of the index: a file named " a.pdf" and a file named "b.pdf"
Corpus ==
    { [source |-> <<"sp", "a", "pdf">>, content |-> <<"a", "sp", "b">>],
      [source |-> <<"b", "pdf">>, content |-> <<"a">>] }

\* the relevance score (hundredths) the index reports at a rank
ScoreAtRank(i) == 100 - 10 * i

\* a slip: the filter is not passed to the index
Matching_NoFilter(doc_id) == Corpus

\* the passages that pass the filter {'source': doc_id}, set only `if doc_id`
Matching(doc_id) ==
    IF Truthy(doc_id) THEN {p \in Corpus : p.source = doc_id.val} ELSE Corpus

\* the orderings of n distinct passages of set S
RECURSIVE Orderings(_, _)
Orderings(S, n) ==
    IF n = 0 THEN {<< >>}
    ELSE {<<p>> \o rest : p \in S, rest \in Orderings(S, n - 1)}

NoRepeat(seq) == \A i, j \in 1..Len(seq) : i # j => seq[i] # seq[j]

\* every list of SearchResult the index may answer with
SearchResults(doc_id) ==
    LET S == Matching(doc_id)
        top == IF Cardinality(S) < SearchK THEN Cardinality(S) ELSE SearchK
        picks == UNION {{o \in Orderings(S, n) : NoRepeat(o)} : n \in 0..top}
    IN  {[i \in 1..Len(o) |->
            [content |-> o[i].content, source |-> o[i].source, score |-> ScoreAtRank(i)]]
         : o \in picks}

----------------------------------------------------------------------------
(* judge/types.py and judge/prompts.py *)

SYSTEM_PROMPT == <<"SYSTEM_PROMPT">>
INITIAL_GREETING == <<"INITIAL_GREETING">>

SEVERITY_LABELS ==
    [s \in 0..3 |-> <<"LABEL", ToString(s)>>]

\* the fields JudgeDecision requires (all declared with Field(...))
JudgeDecisionFields ==
    {"violation_type", "severity", "severity_label", "recommended_actions",
     "rationale", "policy_links", "confidence", "needs_more_evidence"}

\* JudgeDecision.model_validate: every required field is present
\* (the values the oracle gives below are of the declared types)
ModelValidate(judgment_json) == JudgeDecisionFields \subseteq judgment_json.present

----------------------------------------------------------------------------
(* ChatManager: state and pure helpers *)

Message(role, content) == [role |-> role, content |-> content]

\* a slip: the state is created without its system message
NewState_NoSystem == [messages |-> << >>, turn_count |-> 0]

\* ConversationState(messages=[Message(role="system", content=SYSTEM_PROMPT)])
NewState == [messages |-> <<Message("system", SYSTEM_PROMPT)>>, turn_count |-> 0]

\* a slip: the state is seeded on every access
GetOrCreateState_Reseed(cs, conversation_id) ==
    [c \in DOMAIN cs \cup {conversation_id} |->
        IF c = conversation_id THEN NewState ELSE cs[c]]

\* _get_or_create_state: the map after the call
GetOrCreateState(cs, conversation_id) ==
    IF conversation_id \in DOMAIN cs THEN cs
    ELSE [c \in DOMAIN cs \cup {conversation_id} |->
            IF c = conversation_id THEN NewState ELSE cs[c]]

AppendMessage(cs, conversation_id, msg) ==
    [cs EXCEPT ![conversation_id].messages = Append(@, msg)]

\* "\n".join(lines)
RECURSIVE JoinLines(_)
JoinLines(lines) ==
    IF lines = << >> THEN << >>
    ELSE IF Len(lines) = 1 THEN lines[1]
    ELSE Head(lines) \o <<"nl">> \o JoinLines(Tail(lines))

\* _format_chat_history
FormatChatHistory(messages) ==
    JoinLines([i \in 1..Len(messages) |->
                 <<messages[i].role, ": ">> \o messages[i].content])

\* ", ".join(items)
RECURSIVE JoinComma(_)
JoinComma(items) ==
    IF items = << >> THEN << >>
    ELSE IF Len(items) = 1 THEN items[1]
    ELSE Head(items) \o <<", ">> \o JoinComma(Tail(items))

\* the two report lines of one policy link
RECURSIVE LinkLines(_)
LinkLines(links) ==
    IF links = << >> THEN << >>
    ELSE << <<"  * doc: ">> \o Head(links).doc_id \o <<", section: ">> \o Head(links).section,
            <<"    - sentence: '">> \o Head(links).sentence \o <<"'">> >>
         \o LinkLines(Tail(links))

\* the label _format_judgment_report prints: decision.severity_label as given
LabelShown(decision) == decision.severity_label

\* _format_judgment_report
FormatJudgmentReport(decision) ==
    JoinLines(
        << <<"[FINAL JUDGMENT]">>,
           <<"- violation_type: ">> \o JoinComma(decision.violation_type),
           <<"- severity: ", ToString(decision.severity)>>,
           <<"- label: ">> \o LabelShown(decision),
           <<"- recommended_actions:">> >>
        \o [i \in 1..Len(decision.recommended_actions) |->
               <<"  * ">> \o decision.recommended_actions[i]]
        \o << <<"- rationale:">>,
              <<"  ">> \o decision.rationale,
              <<"- policy_links:">> >>
        \o LinkLines(decision.policy_links)
        \o << <<"- confidence: ">> \o Fmt2(decision.confidence),
              <<"- needs_more_evidence: ",
                IF decision.needs_more_evidence THEN "True" ELSE "False">> >>)

\* the trigger test of process_message
IsJudgmentRequest(message) ==
    Contains(message, <<"PANJEONG">>) \/ Contains(message, <<"PANDAN">>)

\* a slip: the `not` of the substring test is missing
Mismatch_NoNot(requested_doc_id, retrieved_doc_id) ==
    /\ Truthy(requested_doc_id) /\ Truthy(retrieved_doc_id)
    /\ Contains(retrieved_doc_id.val, requested_doc_id.val)

\* requested_doc_id and retrieved_doc_id and requested_doc_id not in retrieved_doc_id
Mismatch(requested_doc_id, retrieved_doc_id) ==
    /\ Truthy(requested_doc_id) /\ Truthy(retrieved_doc_id)
    /\ ~Contains(retrieved_doc_id.val, requested_doc_id.val)

\* the disclaimer of process_message naming both documents
ReplyDisclaimer(requested, retrieved) ==
    <<"NOTE: requested '">> \o requested \o <<"' not found; answering from '">>
        \o retrieved \o <<"'.", "nl", "nl">>

\* the disclaimer of make_judgment naming both documents
JudgmentDisclaimer(requested, retrieved) ==
    <<"NOTE: user asked for '">> \o requested \o <<"' but PANJEONG is based on '">>
        \o retrieved \o <<"'.", "nl", "nl">>

\* warning_message of process_message
ReplyWarning(requested_doc_id, retrieved_doc_id) ==
    IF Mismatch(requested_doc_id, retrieved_doc_id)
    THEN ReplyDisclaimer(requested_doc_id.val, retrieved_doc_id.val) ELSE << >>

\* warning_message of make_judgment
JudgmentWarning(requested_doc_id, retrieved_doc_id) ==
    IF Mismatch(requested_doc_id, retrieved_doc_id)
    THEN JudgmentDisclaimer(requested_doc_id.val, retrieved_doc_id.val) ELSE << >>

\* context_prompt of process_message
ContextPrompt(warning_message, chat_history, policy_context, message) ==
    warning_message \o <<"HISTORY:", "nl">> \o chat_history \o <<"nl", "nl", "POLICY:", "nl">>
        \o policy_context \o <<"nl", "nl", "LAST MESSAGE:", "nl">> \o message
        \o <<"nl", "nl", "INSTRUCTION", "SURFACE NOTE">>

\* JUDGE_PROMPT_TEMPLATE.format(...)
JudgePrompt(chat_history, policy_context) ==
    <<"JUDGE ROLE", "nl">> \o chat_history \o <<"nl", "EVIDENCE FROM CHAT", "nl">>
        \o policy_context \o <<"nl", "SCHEMA">>

NudgeThreshold == 3

Nudge == <<"nl", "nl", "NUDGE">>

\* a slip: the nudge starts one turn late
NudgeDue_Late(turn_count) == turn_count > NudgeThreshold

\* if state.turn_count >= 3
NudgeDue(turn_count) == turn_count >= NudgeThreshold

\* a slip: the role test is missing, every message is scanned
RECURSIVE LastRequestedFrom_AnyRole(_, _)
LastRequestedFrom_AnyRole(messages, requested_doc_id) ==
    IF messages = << >> THEN requested_doc_id
    ELSE LET doc_id == _extract_doc_id_from_message(Head(messages).content)
         IN  LastRequestedFrom_AnyRole(Tail(messages),
                                       IF Truthy(doc_id) THEN doc_id ELSE requested_doc_id)

\* the loop of make_judgment over state.messages: the last user request
RECURSIVE LastRequestedFrom(_, _)
LastRequestedFrom(messages, requested_doc_id) ==
    IF messages = << >> THEN requested_doc_id
    ELSE LET msg == Head(messages)
             doc_id == IF msg.role = "user"
                       THEN _extract_doc_id_from_message(msg.content) ELSE None
         IN  LastRequestedFrom(Tail(messages),
                               IF Truthy(doc_id) THEN doc_id ELSE requested_doc_id)

----------------------------------------------------------------------------
(* The external collaborators' answers *)

CIDs == {"c1", "c2"}

\* the user messages of the conversation model:
\*   an ordinary message; a judgment request; a request for the quoted
\*   document " a.pdf" (leading blank); a request for the quoted "b.pdf"
UserMessages ==
    { <<"a">>,
      <<"PANJEONG", "sp", "a">>,
      <<"dq", "sp", "a", "pdf", "dq">>,
      <<"dq", "b", "pdf", "dq">> }

BaseDecision ==
    [present |-> JudgeDecisionFields,
     violation_type |-> << <<"embezzlement">> >>,
     severity |-> 2,
     severity_label |-> SEVERITY_LABELS[2],
     recommended_actions |-> << <<"audit">> >>,
     rationale |-> <<"because">>,
     policy_links |-> << [doc_id |-> <<"b", "pdf">>, section |-> <<"chunk_0">>,
                          sentence |-> <<"a">>] >>,
     confidence |-> 80,
     needs_more_evidence |-> FALSE]

\* JSON objects the oracle may answer a judgment call with: a consistent
\* decision, one whose label is that of severity 0, one without a label,
\* one whose severity is the integer 7
OracleJsonObjects ==
    { BaseDecision,
      [BaseDecision EXCEPT !.severity_label = SEVERITY_LABELS[0]],
      [BaseDecision EXCEPT !.present = @ \ {"severity_label"}],
      [BaseDecision EXCEPT !.severity = 7] }

\* response.choices[0].message.content of the judgment call
JudgeContents ==
    {[kind |-> "none", obj |-> BaseDecision], [kind |-> "nonjson", obj |-> BaseDecision]}
    \cup {[kind |-> "json", obj |-> j] : j \in OracleJsonObjects}

\* the free-text answers of the oracle to a prompt: it may or may not
\* reproduce the note the prompt starts with
ReplyContents(warning_message) == {<<"REPLY">>, warning_message \o <<"REPLY">>}

----------------------------------------------------------------------------
(* Calls in flight.  A call is at "idle" before any call used the slot, at *)
(* one of the two awaits of its coroutine, or "done" (returned or raised). *)

Slots == {1}

IdleCall ==
    [pc |-> "idle", op |-> "none", cid |-> "c1", message |-> << >>,
     judgment |-> FALSE,
     requested_doc_id |-> None, retrieved_doc_id |-> None,
     policy_context |-> << >>, warning_message |-> << >>, prompt |-> << >>,
     retrieval |-> "none", oracle |-> "none", oracle_calls |-> 0,
     decision |-> BaseDecision,
     status |-> "none", ret |-> << >>, orch_exc |-> "none",
     pre_exists |-> FALSE, pre_messages |-> << >>, pre_turn_count |-> 0,
     mj_len |-> 0]

\* a slip: once a judgment was made on the slot no further call is taken
CanStart_OnceJudged(p) ==
    calls[p].pc \in {"idle", "done"} /\ ~calls[p].judgment /\ ncalls < MaxCalls

CanStart(p) == calls[p].pc \in {"idle", "done"} /\ ncalls < MaxCalls

Snapshot(c) ==
    IF c \in DOMAIN conversation_states
    THEN [pre_exists |-> TRUE, pre_messages |-> conversation_states[c].messages,
          pre_turn_count |-> conversation_states[c].turn_count]
    ELSE [pre_exists |-> FALSE, pre_messages |-> << >>, pre_turn_count |-> 0]

NewCall(op, c, m) ==
    [IdleCall EXCEPT !.op = op, !.cid = c, !.message = m, !.status = "running",
                     !.pre_exists = Snapshot(c).pre_exists,
                     !.pre_messages = Snapshot(c).pre_messages,
                     !.pre_turn_count = Snapshot(c).pre_turn_count]

\* start_conversation: no await, one step
StartConversation(p, c) ==
    /\ CanStart(p)
    /\ conversation_states' =
          AppendMessage(GetOrCreateState(conversation_states, c), c,
                        Message("assistant", INITIAL_GREETING))
    /\ calls' = [calls EXCEPT ![p] =
          [NewCall("start_conversation", c, << >>) EXCEPT
              !.pc = "done", !.status = "returned", !.ret = INITIAL_GREETING]]
    /\ ncalls' = ncalls + 1
    /\ UNCHANGED <<vectorstore, exVars, gcVars, jrVars>>

\* make_judgment up to its first await (lines 160-174): the call record
EnterJudgment(call, cs) ==
    [call EXCEPT !.pc = "mj_retrieve", !.judgment = TRUE,
                 !.mj_len = Len(cs[call.cid].messages),
                 !.requested_doc_id = LastRequestedFrom(cs[call.cid].messages, None)]

\* a slip: the turn counter is incremented only on ordinary turns
UserTurn_SkipJudgment(cs, conversation_id, message) ==
    [AppendMessage(cs, conversation_id, Message("user", message))
        EXCEPT ![conversation_id].turn_count =
            IF IsJudgmentRequest(message) THEN @ ELSE @ + 1]

\* a slip: the message is appended but the count is left for later
UserTurn_AppendOnly(cs, conversation_id, message) ==
    AppendMessage(cs, conversation_id, Message("user", message))

\* process_message lines 116-117: append the user message, count the turn
UserTurn(cs, conversation_id, message) ==
    [AppendMessage(cs, conversation_id, Message("user", message))
        EXCEPT ![conversation_id].turn_count = @ + 1]

\* ChatManager.process_message up to its first await (lines 115-123), from
\* the map `states` and for the call entered as `op`: the map and the call
\* record at the await.  make_judgment is entered from here only (line 120
\* is its one caller)
TurnBegun(op, states, c, m) ==
    LET turn == UserTurn(GetOrCreateState(states, c), c, m)
        \* a judgment request goes on into make_judgment, which fetches
        \* the state again (line 160)
        cs == IF IsJudgmentRequest(m) THEN GetOrCreateState(turn, c) ELSE turn
        call == NewCall(op, c, m)
    IN  [cs |-> cs,
         call |-> IF IsJudgmentRequest(m) THEN EnterJudgment(call, cs)
                  ELSE [call EXCEPT !.pc = "pm_retrieve",
                           !.requested_doc_id = _extract_doc_id_from_message(m)]]

\* ChatManager.process_message called directly
ProcessMessageBegin(p, c, m) ==
    /\ CanStart(p)
    /\ conversation_states' = TurnBegun("process_message", conversation_states, c, m).cs
    /\ calls' = [calls EXCEPT ![p] =
          TurnBegun("process_message", conversation_states, c, m).call]
    /\ ncalls' = ncalls + 1
    /\ UNCHANGED <<vectorstore, exVars, gcVars, jrVars>>

\* Orchestrator.process_message up to the first await of the turn: line 40
\* fetches the state, line 43 enters ChatManager.process_message
OrchProcessMessageBegin(p, c, m) ==
    /\ CanStart(p)
    /\ LET begun == TurnBegun("orch_process_message",
                              GetOrCreateState(conversation_states, c), c, m)
       IN  /\ conversation_states' = begun.cs
           /\ calls' = [calls EXCEPT ![p] = begun.call]
    /\ ncalls' = ncalls + 1
    /\ UNCHANGED <<vectorstore, exVars, gcVars, jrVars>>

\* Orchestrator.process_judgment: line 61 fetches the state and line 63
\* reads state.is_ready_for_judgment, an attribute ConversationState
\* (chat_manager.py lines 35-39) does not have, so the read raises
\* AttributeError and lines 64-104 are never reached
OrchProcessJudgment(p, c) ==
    /\ CanStart(p)
    /\ conversation_states' = GetOrCreateState(conversation_states, c)
    /\ calls' = [calls EXCEPT ![p] =
          [NewCall("orch_process_judgment", c, << >>) EXCEPT
              !.pc = "done", !.status = "raised", !.orch_exc = "AttributeError"]]
    /\ ncalls' = ncalls + 1
    /\ UNCHANGED <<vectorstore, exVars, gcVars, jrVars>>

\* the symbols that stand for one character each; every other symbol stands
\* for a text of more than two characters
OneChar == {"dq", "lq", "rq", "sp", "nl", "a", "b", ".",
            "0", "1", "2", "3", "4", "5", "6", "7", "8", "9"}

\* len(text) = 2
TwoChars(text) == Len(text) = 2 /\ \A i \in 1..2 : text[i] \in OneChar

\* orchestrator.py line 43, `response, ready_for_judgment = await ...`: a
\* str unpacks into two targets only if it has exactly two characters (they
\* become the two values); otherwise the assignment raises ValueError.  An
\* exception of the awaited call passes through
Unpack(status, ret) ==
    IF status = "returned" /\ ~TwoChars(ret)
    THEN [status |-> "raised", ret |-> << >>, exc |-> "ValueError"]
    ELSE IF status = "returned"
    THEN [status |-> status, ret |-> << <<ret[1]>>, <<ret[2]>> >>, exc |-> "none"]
    ELSE [status |-> status, ret |-> ret, exc |-> "none"]

\* what the entry point of the call hands to its caller when
\* ChatManager.process_message is left with `status` and `ret`
Outcome(call, status, ret) ==
    IF call.op = "orch_process_message" THEN Unpack(status, ret)
    ELSE [status |-> status, ret |-> ret, exc |-> "none"]

\* the call record when the coroutine is left: its locals are gone
Finished(call, status, ret) ==
    [call EXCEPT !.pc = "done",
                 !.status = Outcome(call, status, ret).status,
                 !.ret = Outcome(call, status, ret).ret,
                 !.orch_exc = Outcome(call, status, ret).exc,
                 !.policy_context = << >>, !.prompt = << >>]

\* the call record when an exception leaves the coroutine
Raised(call) == Finished(call, "raised", << >>)

\* the call record after get_context returned from `results`, up to the
\* oracle call (process_message lines 124-141, make_judgment lines 176-190)
Retrieved(call, results, how) ==
    LET policy_context == GetContextOf(results, DefaultMaxTokens)
        retrieved_doc_id == _extract_doc_id_from_context(policy_context)
        \* process_message formats the history after the await (line 124),
        \* make_judgment before it (line 162): the messages it found
        messages == conversation_states[call.cid].messages
        chat_history ==
            IF call.judgment THEN FormatChatHistory(SubSeq(messages, 1, call.mj_len))
            ELSE FormatChatHistory(messages)
        warning_message ==
            IF call.judgment
            THEN JudgmentWarning(call.requested_doc_id, retrieved_doc_id)
            ELSE ReplyWarning(call.requested_doc_id, retrieved_doc_id)
    IN  [call EXCEPT
            !.pc = IF call.judgment THEN "mj_oracle" ELSE "pm_oracle",
            !.retrieval = how,
            !.policy_context = policy_context,
            !.retrieved_doc_id = retrieved_doc_id,
            !.warning_message = warning_message,
            !.oracle_calls = @ + 1,
            !.prompt =
                IF call.judgment
                THEN JudgePrompt(chat_history, warning_message \o policy_context)
                ELSE ContextPrompt(warning_message, chat_history, policy_context,
                                   call.message)]

\* search with self.vectorstore None: returns []
RetrieveUnavailable(p) ==
    /\ calls[p].pc \in {"pm_retrieve", "mj_retrieve"}
    /\ vectorstore = "none"
    /\ calls' = [calls EXCEPT ![p] = Retrieved(calls[p], << >>, "unavailable")]
    /\ UNCHANGED <<conversation_states, vectorstore, ncalls, exVars, gcVars, jrVars>>

\* search: the index answers
RetrieveOk(p) ==
    /\ calls[p].pc \in {"pm_retrieve", "mj_retrieve"}
    /\ vectorstore = "ready"
    /\ \E results \in SearchResults(calls[p].requested_doc_id) :
          calls' = [calls EXCEPT ![p] = Retrieved(calls[p], results, "ok")]
    /\ UNCHANGED <<conversation_states, vectorstore, ncalls, exVars, gcVars, jrVars>>

\* search: similarity_search_with_relevance_scores raises (the embedding
\* request or the index fails); nothing catches it
RetrieveFails(p) ==
    /\ calls[p].pc \in {"pm_retrieve", "mj_retrieve"}
    /\ vectorstore = "ready"
    /\ calls' = [calls EXCEPT ![p] = [Raised(calls[p]) EXCEPT !.retrieval = "failed"]]
    /\ UNCHANGED <<conversation_states, vectorstore, ncalls, exVars, gcVars, jrVars>>

\* a slip: a failed oracle call leaves a partial assistant message behind
ReplyOracleFailure_Partial(cs, conversation_id) ==
    AppendMessage(cs, conversation_id, Message("assistant", << >>))

\* lines 141-147 when `await ...create(...)` raises: nothing catches it and
\* nothing has been written since the user message
ReplyOracleFailure(cs, conversation_id) == cs

\* process_message, the oracle call fails
ReplyOracleRaises(p) ==
    /\ calls[p].pc = "pm_oracle"
    /\ conversation_states' = ReplyOracleFailure(conversation_states, calls[p].cid)
    /\ calls' = [calls EXCEPT ![p] =
          [Raised(calls[p]) EXCEPT !.oracle = "raise"]]
    /\ UNCHANGED <<vectorstore, ncalls, exVars, gcVars, jrVars>>

\* lines 149-152: the reply, with the nudge from the third turn on
AssistantMessage(content, turn_count) ==
    IF NudgeDue(turn_count) THEN content \o Nudge ELSE content

\* process_message, the oracle answers (lines 141-156)
ReplyOracleAnswers(p) ==
    /\ calls[p].pc = "pm_oracle"
    /\ \E content \in ReplyContents(calls[p].warning_message) :
          LET c == calls[p].cid
              assistant_message ==
                  AssistantMessage(content, conversation_states[c].turn_count)
          IN  /\ conversation_states' =
                    AppendMessage(conversation_states, c,
                                  Message("assistant", assistant_message))
              /\ calls' = [calls EXCEPT ![p] =
                    [Finished(calls[p], "returned", assistant_message)
                        EXCEPT !.oracle = "text"]]
    /\ UNCHANGED <<vectorstore, ncalls, exVars, gcVars, jrVars>>

\* make_judgment, the oracle call fails
JudgeOracleRaises(p) ==
    /\ calls[p].pc = "mj_oracle"
    /\ calls' = [calls EXCEPT ![p] =
          [Raised(calls[p]) EXCEPT !.oracle = "raise"]]
    /\ UNCHANGED <<conversation_states, vectorstore, ncalls, exVars, gcVars, jrVars>>

\* f"...: {e}" for the exception the try block caught
ErrorMessage(e) == <<"JUDGMENT PROCESSING ERROR: ", e>>

\* what the oracle's content was, as the try block of make_judgment sees it
JudgeOutcome(content) ==
    IF content.kind = "none" THEN "none"
    ELSE IF content.kind = "nonjson" THEN "nonjson"
    ELSE IF ModelValidate(content.obj) THEN "valid" ELSE "invalid"

\* a slip: the disclaimer is not put in front of the report
JudgmentReply_NoDisclaimer(content, warning_message) ==
    IF content.kind = "nonjson" THEN ErrorMessage("JSONDecodeError")
    ELSE IF ~ModelValidate(content.obj) THEN ErrorMessage("ValidationError")
    ELSE FormatJudgmentReport(content.obj)

\* a slip: the parsed object is rendered without validation
JudgmentReply_NoValidate(content, warning_message) ==
    IF content.kind = "nonjson" THEN ErrorMessage("JSONDecodeError")
    ELSE warning_message \o FormatJudgmentReport(content.obj)

\* lines 196-211 for a content that is text: the message appended and returned
JudgmentReply(content, warning_message) ==
    IF content.kind = "nonjson" THEN ErrorMessage("JSONDecodeError")
    ELSE IF ~ModelValidate(content.obj) THEN ErrorMessage("ValidationError")
    ELSE warning_message \o FormatJudgmentReport(content.obj)

\* make_judgment, the oracle answers (lines 190-211)
JudgeOracleAnswers(p) ==
    /\ calls[p].pc = "mj_oracle"
    /\ \E content \in JudgeContents :
          LET c == calls[p].cid
              asked == [calls[p] EXCEPT !.oracle = JudgeOutcome(content)]
          IN  IF content.kind = "none"
              THEN \* json.loads(None) raises TypeError, which is not caught
                   /\ calls' = [calls EXCEPT ![p] = Raised(asked)]
                   /\ UNCHANGED conversation_states
              ELSE LET reply == JudgmentReply(content, calls[p].warning_message)
                   IN  /\ conversation_states' =
                             AppendMessage(conversation_states, c,
                                           Message("assistant", reply))
                       /\ calls' = [calls EXCEPT ![p] =
                             [Finished(asked, "returned", reply)
                                 EXCEPT !.decision = content.obj]]
    /\ UNCHANGED <<vectorstore, ncalls, exVars, gcVars, jrVars>>

----------------------------------------------------------------------------
(* The pure functions on their own *)

ExAlphabet == {"dq", "lq", "rq", "sp", "a", "pdf"}

ExIdle == [done |-> FALSE, doc |-> None]

ExtractCall ==
    /\ ~ex_out.done
    /\ ex_out' = [done |-> TRUE, doc |-> _extract_doc_id_from_message(ex_msg)]
    /\ UNCHANGED <<ex_msg, convVars, gcVars, jrVars>>

\* contents of 0, 1, 2 and 1 whitespace-delimited tokens
GcContents == { << >>, <<"a">>, <<"a", "sp", "b">>, <<"sp", "a", "sp", "sp">> }

GcResultLists ==
    {[i \in 1..Len(cs) |->
        [content |-> cs[i], source |-> <<"b", "pdf">>, score |-> ScoreAtRank(i)]]
     : cs \in StringsUpTo(GcContents, MaxResults)}

GcIdle == [done |-> FALSE, context |-> << >>]

GetContextCall ==
    /\ ~gc_out.done
    /\ gc_out' = [done |-> TRUE, context |-> GetContextOf(gc_results, gc_budget)]
    /\ UNCHANGED <<gc_results, gc_budget, convVars, exVars, jrVars>>

----------------------------------------------------------------------------
(* judge/calibrate.py and judge/chain.py: judge_report from line 46 on,    *)
(* for a prompt that was built.  A JSON value is a record: its type, the   *)
(* keys present when it is an object, and the values of the keys the code  *)
(* reads; a severity is an integer or a text that is not a number.         *)

\* SEVERITY_LABELS.get(severity, SEVERITY_LABELS[0])
map_severity_label(severity) ==
    IF severity \in DOMAIN SEVERITY_LABELS THEN SEVERITY_LABELS[severity]
    ELSE SEVERITY_LABELS[0]

IntValue(n) == [t |-> "int", v |-> n]
TextValue == [t |-> "str", v |-> 0]

\* str.lower(): the capital letter becomes the small one, the Korean words
\* have no case
Lower(s) == [i \in 1..Len(s) |-> IF s[i] = "A" THEN "a" ELSE s[i]]

\* {} as the code writes it at lines 47 and 61
EmptyDict ==
    [jtype |-> "dict", present |-> {}, violation_type |-> << >>,
     severity |-> IntValue(0), severity_label |-> << >>,
     recommended_actions |-> << >>, rationale |-> << >>,
     confidence |-> 0, needs_more_evidence |-> FALSE]

\* the keys the heuristic result is built with (lines 71-78)
HeuristicKeys ==
    {"violation_type", "severity", "recommended_actions", "rationale",
     "confidence", "needs_more_evidence"}

\* lines 64-78: the keyword rule
Heuristic(complaint) ==
    LET lower == Lower(complaint)
        hit == Contains(lower, <<"HOENGNYEONG">>) \/ Contains(lower, <<"BAEIM">>)
        sev == IF hit THEN 2 ELSE 0
    IN  [EmptyDict EXCEPT
            !.present = HeuristicKeys,
            !.violation_type = IF hit THEN << <<"BAEIM/HOENGNYEONG">> >> ELSE << >>,
            !.severity = IntValue(sev),
            !.recommended_actions =
                IF sev > 0 THEN << <<"INVESTIGATE">> >> ELSE << <<"NOT APPLICABLE">> >>,
            !.rationale = <<"RULE-BASED DEFAULT">>,
            !.confidence = 50]

\* Python truthiness of a parsed JSON value: an empty object or array is falsy
JsonTruthy(value) ==
    IF value.jtype = "dict" THEN value.present # {} ELSE value.jtype = "list"

\* lines 49-61: what `result` is after the try.  The call raising, a
\* content of None (None.strip()) and a content that is not JSON all raise
\* inside the try and leave {}
ParsedResult(api) == IF api.kind = "json" THEN api.value ELSE EmptyDict

\* lines 47-84
judge_report(complaint, api) ==
    LET parsed == ParsedResult(api)
        result == IF ~JsonTruthy(parsed) THEN Heuristic(complaint) ELSE parsed
        given == IF "severity" \in result.present THEN result.severity ELSE IntValue(0)
    IN  IF result.jtype # "dict"
        THEN \* result.get on a list
             [status |-> "raised", exc |-> "AttributeError", result |-> EmptyDict]
        ELSE IF given.t # "int"
        THEN \* int("high")
             [status |-> "raised", exc |-> "ValueError", result |-> EmptyDict]
        ELSE [status |-> "returned", exc |-> "none",
              result |-> [result EXCEPT
                  !.present = @ \cup {"severity_label"},
                  !.severity_label =
                      IF "severity_label" \in result.present THEN result.severity_label
                      ELSE map_severity_label(given.v)]]

\* the words of a complaint: a small and a capital letter and the two
\* keywords of the rule
ComplaintWords == {"a", "A", "HOENGNYEONG", "BAEIM"}

\* a JSON object the API may answer with, reduced to the keys the code and
\* the label rule read
JsonObject(present, severity, severity_label) ==
    [EmptyDict EXCEPT
        !.present = present,
        !.severity = IF "severity" \in present THEN severity ELSE IntValue(0),
        !.severity_label = IF "severity_label" \in present THEN severity_label ELSE << >>,
        !.rationale = IF "rationale" \in present THEN <<"because">> ELSE << >>]

\* the JSON values of an answer: objects with any of three keys, severities
\* in and out of range and one that is text, labels of two severities; an
\* empty and a non-empty array
JsonValues ==
    {JsonObject(present, severity, severity_label) :
        present \in SUBSET {"severity", "severity_label", "rationale"},
        severity \in {IntValue(0), IntValue(2), IntValue(7), TextValue},
        severity_label \in {SEVERITY_LABELS[0], SEVERITY_LABELS[2]}}
    \cup {[EmptyDict EXCEPT !.jtype = "list"], [EmptyDict EXCEPT !.jtype = "emptylist"]}

\* what the API call does: raises, answers with content None, with text that
\* is not JSON, or with JSON
ApiOutcomes ==
    {[kind |-> k, value |-> EmptyDict] : k \in {"raise", "none", "nonjson"}}
    \cup {[kind |-> "json", value |-> v] : v \in JsonValues}

JrIdle == [done |-> FALSE, status |-> "none", exc |-> "none", result |-> EmptyDict]

JudgeReportCall ==
    /\ ~jr_out.done
    /\ jr_out' = [done |-> TRUE,
                  status |-> judge_report(jr_complaint, jr_api).status,
                  exc |-> judge_report(jr_complaint, jr_api).exc,
                  result |-> judge_report(jr_complaint, jr_api).result]
    /\ UNCHANGED <<jr_complaint, jr_api, convVars, exVars, gcVars>>

----------------------------------------------------------------------------
(* Specifications *)

NoConversations == [c \in {} |-> NewState]

ConvIdle ==
    /\ conversation_states = NoConversations
    /\ calls = [p \in Slots |-> IdleCall]
    /\ ncalls = 0

\* one ChatManager serving its calls one at a time
Init ==
    /\ ConvIdle
    /\ vectorstore \in {"none", "ready"}
    /\ ex_msg = << >> /\ ex_out = ExIdle
    /\ gc_results = << >> /\ gc_budget = 0 /\ gc_out = GcIdle
    /\ jr_complaint = << >> /\ jr_api = [kind |-> "raise", value |-> EmptyDict]
    /\ jr_out = JrIdle

Next ==
    \E p \in Slots :
        \/ \E c \in CIDs : StartConversation(p, c)
        \/ \E c \in CIDs : \E m \in UserMessages : ProcessMessageBegin(p, c, m)
        \/ RetrieveUnavailable(p)
        \/ RetrieveOk(p)
        \/ RetrieveFails(p)
        \/ ReplyOracleRaises(p)
        \/ ReplyOracleAnswers(p)
        \/ JudgeOracleRaises(p)
        \/ JudgeOracleAnswers(p)

Spec == Init /\ [][Next]_vars

\* _extract_doc_id_from_message on every short message
ExInit ==
    /\ ConvIdle /\ vectorstore = "none"
    /\ ex_msg \in StringsUpTo(ExAlphabet, MaxMsgLen) /\ ex_out = ExIdle
    /\ gc_results = << >> /\ gc_budget = 0 /\ gc_out = GcIdle
    /\ jr_complaint = << >> /\ jr_api = [kind |-> "raise", value |-> EmptyDict]
    /\ jr_out = JrIdle

ExNext == ExtractCall

SpecExtract == ExInit /\ [][ExNext]_vars

\* the messages posted through the orchestrator: an ordinary one and a
\* judgment request
OrchMessages == { <<"a">>, <<"PANJEONG", "sp", "a">> }

\* one Orchestrator (orchestrator.py) in front of its ChatManager, serving
\* its calls one at a time
OrchNext ==
    \E p \in Slots :
        \/ \E c \in CIDs : StartConversation(p, c)
        \/ \E c \in CIDs : \E m \in OrchMessages : OrchProcessMessageBegin(p, c, m)
        \/ \E c \in CIDs : OrchProcessJudgment(p, c)
        \/ RetrieveUnavailable(p)
        \/ RetrieveOk(p)
        \/ RetrieveFails(p)
        \/ ReplyOracleRaises(p)
        \/ ReplyOracleAnswers(p)
        \/ JudgeOracleRaises(p)
        \/ JudgeOracleAnswers(p)

SpecOrch == Init /\ [][OrchNext]_vars

\* two coroutines of process_message at a time, on one conversation id: a
\* step runs from one await to the next (or to the end), as the event loop
\* runs one coroutine at a time
ConcSlots == {1, 2}

ConcCIDs == {"c1"}

ConcMessages == { <<"a">>, <<"PANJEONG", "sp", "a">> }

ConcInit ==
    /\ conversation_states = NoConversations
    /\ calls = [p \in ConcSlots |-> IdleCall]
    /\ ncalls = 0
    /\ vectorstore \in {"none", "ready"}
    /\ ex_msg = << >> /\ ex_out = ExIdle
    /\ gc_results = << >> /\ gc_budget = 0 /\ gc_out = GcIdle
    /\ jr_complaint = << >> /\ jr_api = [kind |-> "raise", value |-> EmptyDict]
    /\ jr_out = JrIdle

ConcNext ==
    \E p \in ConcSlots :
        \/ /\ ncalls < MaxConcCalls
           /\ \E c \in ConcCIDs : \E m \in ConcMessages : ProcessMessageBegin(p, c, m)
        \/ RetrieveUnavailable(p)
        \/ RetrieveOk(p)
        \/ RetrieveFails(p)
        \/ ReplyOracleRaises(p)
        \/ ReplyOracleAnswers(p)
        \/ JudgeOracleRaises(p)
        \/ JudgeOracleAnswers(p)

SpecConc == ConcInit /\ [][ConcNext]_vars

\* one conversation whose turns are served one at a time, ordinary messages
\* and judgment requests in any order
SeqNext ==
    \E p \in Slots :
        \/ \E c \in ConcCIDs : \E m \in ConcMessages : ProcessMessageBegin(p, c, m)
        \/ RetrieveUnavailable(p)
        \/ RetrieveOk(p)
        \/ RetrieveFails(p)
        \/ ReplyOracleRaises(p)
        \/ ReplyOracleAnswers(p)
        \/ JudgeOracleRaises(p)
        \/ JudgeOracleAnswers(p)

SpecSeq == Init /\ [][SeqNext]_vars

----------------------------------------------------------------------------
(* app/main.py, upload_evidence: the notification posted to the chat *)

\* the names of the uploaded files: a bare "b.pdf", and a file whose name
\* holds a trigger word
EvidenceFilenames == { <<"b", "pdf">>, <<"PANJEONG", "pdf">> }

\* a slip: the notification does not name the file
EvidenceNotification_NoName(filename) ==
    <<"JEUNGGEO", "sp", "JARYOGA", "sp", "UPLOADED:">>

\* f"... : {file.filename}" (lines 118-122): three words, then the file name
EvidenceNotification(filename) ==
    <<"JEUNGGEO", "sp", "JARYOGA", "sp", "UPLOADED:", "sp">> \o filename

\* upload_evidence from its call of the orchestrator on (lines 117-122);
\* the evidence_files argument is not read by ChatManager.process_message
UploadEvidence(p, c, filename) ==
    OrchProcessMessageBegin(p, c, EvidenceNotification(filename))

\* one conversation with evidence uploads, messages and judgment requests
\* posted through the orchestrator, one call at a time
EvidenceNext ==
    \E p \in Slots :
        \/ \E c \in ConcCIDs : \E f \in EvidenceFilenames : UploadEvidence(p, c, f)
        \/ \E c \in ConcCIDs : \E m \in OrchMessages : OrchProcessMessageBegin(p, c, m)
        \/ RetrieveUnavailable(p)
        \/ RetrieveOk(p)
        \/ RetrieveFails(p)
        \/ ReplyOracleRaises(p)
        \/ ReplyOracleAnswers(p)
        \/ JudgeOracleRaises(p)
        \/ JudgeOracleAnswers(p)

SpecEvidence == Init /\ [][EvidenceNext]_vars

\* the messages of a conversation about documents: a judgment request, a
\* request for the quoted " a.pdf" (leading blank), one for the quoted "b.pdf"
DocMessages ==
    { <<"PANJEONG", "sp", "a">>,
      <<"dq", "sp", "a", "pdf", "dq">>,
      <<"dq", "b", "pdf", "dq">> }

\* one conversation of document requests and judgments, one call at a time
DocNext ==
    \E p \in Slots :
        \/ \E c \in ConcCIDs : \E m \in DocMessages : ProcessMessageBegin(p, c, m)
        \/ RetrieveUnavailable(p)
        \/ RetrieveOk(p)
        \/ RetrieveFails(p)
        \/ ReplyOracleRaises(p)
        \/ ReplyOracleAnswers(p)
        \/ JudgeOracleRaises(p)
        \/ JudgeOracleAnswers(p)

SpecDocs == Init /\ [][DocNext]_vars

\* the one message of the turns that race for the nudge: an ordinary one
NudgeMessages == { <<"a">> }

\* ordinary turns on one conversation id, two coroutines at a time
NudgeNext ==
    \E p \in ConcSlots :
        \/ \E c \in ConcCIDs : \E m \in NudgeMessages : ProcessMessageBegin(p, c, m)
        \/ RetrieveUnavailable(p)
        \/ RetrieveOk(p)
        \/ RetrieveFails(p)
        \/ ReplyOracleRaises(p)
        \/ ReplyOracleAnswers(p)

SpecNudge == ConcInit /\ [][NudgeNext]_vars

\* get_context on every short result list and small budget
GcInit ==
    /\ ConvIdle /\ vectorstore = "none"
    /\ ex_msg = << >> /\ ex_out = ExIdle
    /\ gc_results \in GcResultLists /\ gc_budget \in 0..MaxBudget /\ gc_out = GcIdle
    /\ jr_complaint = << >> /\ jr_api = [kind |-> "raise", value |-> EmptyDict]
    /\ jr_out = JrIdle

GcNext == GetContextCall

SpecContext == GcInit /\ [][GcNext]_vars

\* judge_report on every short complaint and every answer of the API
JrInit ==
    /\ ConvIdle /\ vectorstore = "none"
    /\ ex_msg = << >> /\ ex_out = ExIdle
    /\ gc_results = << >> /\ gc_budget = 0 /\ gc_out = GcIdle
    /\ jr_complaint \in StringsUpTo(ComplaintWords, MaxComplaintLen)
    /\ jr_api \in ApiOutcomes /\ jr_out = JrIdle

JrNext == JudgeReportCall

SpecJudgeReport == JrInit /\ [][JrNext]_vars

----------------------------------------------------------------------------
(* Claims C1 - C10 *)

LastMessage(c) ==
    conversation_states[c].messages[Len(conversation_states[c].messages)]

\* the messages of the conversation when the call started (seeded if new)
BaseMessages(call) ==
    IF call.pre_exists THEN call.pre_messages
    ELSE <<Message("system", SYSTEM_PROMPT)>>

UserTurns(messages) ==
    Cardinality({i \in 1..Len(messages) : messages[i].role = "user"})

NonJudgmentTurns(messages) ==
    Cardinality({i \in 1..Len(messages) :
        messages[i].role = "user" /\ ~IsJudgmentRequest(messages[i].content)})

\* an ordinary (non-judgment) turn that returned its reply
ReplyReturned(call) ==
    /\ call.pc = "done" /\ call.op = "process_message" /\ ~call.judgment
    /\ call.status = "returned"

\* C1 as stated: after n non-judgment user turns turn_count is n, and the
\* n-th reply carries the nudge iff n >= 3
C1_Original ==
    \A p \in Slots :
        ReplyReturned(calls[p]) =>
            LET st == conversation_states[calls[p].cid]
                n == NonJudgmentTurns(st.messages)
            IN  /\ st.turn_count = n
                /\ Contains(calls[p].ret, Nudge) <=> n >= NudgeThreshold

\* C1 amended: turn_count is the number of user turns of any kind (judgment
\* requests and failed turns included), and the reply of an ordinary turn has
\* the nudge appended iff that count is at least 3
C1_TurnCount ==
    /\ \A c \in DOMAIN conversation_states :
          conversation_states[c].turn_count = UserTurns(conversation_states[c].messages)
    /\ \A p \in Slots :
          ReplyReturned(calls[p]) =>
              LET st == conversation_states[calls[p].cid]
              IN  /\ LastMessage(calls[p].cid) = Message("assistant", calls[p].ret)
                  /\ Contains(calls[p].ret, Nudge) <=> UserTurns(st.messages) >= 3

\* a third ordinary turn returned its reply with the nudge, and an earlier
\* reply of the conversation has none
C1_Witness ==
    \E p \in Slots :
        /\ ReplyReturned(calls[p])
        /\ Contains(calls[p].ret, Nudge)
        /\ LET msgs == conversation_states[calls[p].cid].messages
           IN  \E i \in 1..Len(msgs) :
                  msgs[i].role = "assistant" /\ ~Contains(msgs[i].content, Nudge)

\* a judgment whose oracle content was text that does not parse or validate
JudgmentRejected(call) ==
    call.pc = "done" /\ call.judgment /\ call.oracle \in {"nonjson", "invalid"}

\* C2: on unparseable or invalid judgment output make_judgment asks the
\* oracle once, returns the error string and appends exactly that one
\* message, no report
C2_SchemaFallback ==
    \A p \in Slots :
        JudgmentRejected(calls[p]) =>
            LET call == calls[p]
                msgs == conversation_states[call.cid].messages
                e == IF call.oracle = "nonjson" THEN "JSONDecodeError"
                     ELSE "ValidationError"
            IN  /\ call.status = "returned"
                /\ call.oracle_calls = 1
                /\ call.ret = <<"JUDGMENT PROCESSING ERROR: ", e>>
                /\ Len(msgs) = call.mj_len + 1
                /\ msgs = Append(Append(BaseMessages(call), Message("user", call.message)),
                                 Message("assistant", call.ret))
                /\ \A i \in (Len(BaseMessages(call)) + 1)..Len(msgs) :
                      ~Contains(msgs[i].content, <<"[FINAL JUDGMENT]">>)

C2_Witness ==
    \E p \in Slots : JudgmentRejected(calls[p]) /\ calls[p].oracle = "invalid"

\* a judgment whose oracle output validated
JudgmentAccepted(call) ==
    call.pc = "done" /\ call.judgment /\ call.oracle = "valid"

\* C3 as stated: the label line of the report (returned and stored) is the
\* SEVERITY_LABELS entry of the decision's severity
C3_Original ==
    \A p \in Slots :
        (JudgmentAccepted(calls[p])
            /\ calls[p].decision.severity \in DOMAIN SEVERITY_LABELS) =>
            /\ Contains(calls[p].ret,
                        <<"- label: ">> \o SEVERITY_LABELS[calls[p].decision.severity]
                            \o <<"nl">>)
            /\ LastMessage(calls[p].cid) = Message("assistant", calls[p].ret)

\* the requested document is not a substring of the retrieved one
NotSubstring(requested_doc_id, retrieved_doc_id) ==
    /\ requested_doc_id.some /\ requested_doc_id.val # << >>
    /\ retrieved_doc_id.some /\ retrieved_doc_id.val # << >>
    /\ \A i \in 0..(Len(retrieved_doc_id.val) - Len(requested_doc_id.val)) :
          SubSeq(retrieved_doc_id.val, i + 1, i + Len(requested_doc_id.val))
              # requested_doc_id.val

\* C4 as stated: on a mismatch the reply returned and stored holds the
\* disclaimer naming both documents; without one the reply holds no disclaimer
C4_Original ==
    \A p \in Slots :
        ReplyReturned(calls[p]) =>
            LET A == calls[p].requested_doc_id
                B == calls[p].retrieved_doc_id
            IN  IF NotSubstring(A, B)
                THEN /\ Contains(calls[p].ret, ReplyDisclaimer(A.val, B.val))
                     /\ LastMessage(calls[p].cid) = Message("assistant", calls[p].ret)
                ELSE A.some /\ B.some =>
                        ~Contains(calls[p].ret, <<"NOTE: requested '">>)

\* C4 amended: on a mismatch the prompt sent to the oracle starts with the
\* disclaimer naming both documents; otherwise the prompt starts with the
\* chat history and the call holds no disclaimer
C4_PromptDisclaimer ==
    \A p \in Slots :
        calls[p].pc = "pm_oracle" =>
            LET A == calls[p].requested_doc_id
                B == calls[p].retrieved_doc_id
            IN  IF NotSubstring(A, B)
                THEN /\ IsPrefix(ReplyDisclaimer(A.val, B.val) \o <<"HISTORY:">>,
                                 calls[p].prompt)
                     /\ calls[p].warning_message = ReplyDisclaimer(A.val, B.val)
                ELSE /\ Head(calls[p].prompt) = "HISTORY:"
                     /\ calls[p].warning_message = << >>

\* " a.pdf" was requested and the passage retrieved names "a.pdf"
C4_Witness ==
    \E p \in Slots :
        /\ calls[p].pc = "pm_oracle"
        /\ NotSubstring(calls[p].requested_doc_id, calls[p].retrieved_doc_id)
        /\ calls[p].requested_doc_id.val = <<"sp", "a", "pdf">>
        /\ calls[p].retrieved_doc_id.val = <<"a", "pdf">>

\* a request whose document is (a substring of) the retrieved one
C4_WitnessMatch ==
    \E p \in Slots :
        /\ calls[p].pc = "pm_oracle"
        /\ Truthy(calls[p].requested_doc_id) /\ Truthy(calls[p].retrieved_doc_id)
        /\ ~NotSubstring(calls[p].requested_doc_id, calls[p].retrieved_doc_id)

RECURSIVE SumTokens(_)
SumTokens(results) ==
    IF results = << >> THEN 0
    ELSE TokenCount(Head(results).content) + SumTokens(Tail(results))

\* the context get_context returns when exactly the first k results are in
ContextOfFirst(results, k) ==
    DebugWrapper(Len(results), JoinBlocks(SubSeq(results, 1, k)))

\* C5: the context holds the blocks of a prefix of the results, in order,
\* whose token count is within the budget, and the prefix ends only at the
\* end of the list or before a passage that would overflow
C5_ContextBudget ==
    gc_out.done =>
        \E k \in 0..Len(gc_results) :
            /\ gc_out.context = ContextOfFirst(gc_results, k)
            /\ SumTokens(SubSeq(gc_results, 1, k)) <= gc_budget
            /\ k < Len(gc_results) =>
                  SumTokens(SubSeq(gc_results, 1, k + 1)) > gc_budget

\* some passages are in, a later one did not fit, and one after it would have
C5_Witness ==
    /\ gc_out.done
    /\ \E k \in 1..(Len(gc_results) - 2) :
          /\ gc_out.context = ContextOfFirst(gc_results, k)
          /\ SumTokens(SubSeq(gc_results, 1, k)) + TokenCount(gc_results[k + 2].content)
                <= gc_budget

\* the least position of set P of positions
MinPos(P) == CHOOSE i \in P : \A j \in P : i <= j

\* C6 as stated: precedence by kind wherever the candidates stand
ClaimedExtraction(m) ==
    LET P1 == {i \in 1..Len(m) : Alt1At(m, i).some}
        P2 == {i \in 1..Len(m) : Alt2At(m, i).some}
        P3 == {i \in 1..Len(m) : Alt3At(m, i).some}
    IN  IF P1 # {} THEN Alt1At(m, MinPos(P1))
        ELSE IF P2 # {} THEN Alt2At(m, MinPos(P2))
        ELSE IF P3 # {} THEN Alt3At(m, MinPos(P3))
        ELSE None

C6_Original == ex_out.done => ex_out.doc = ClaimedExtraction(ex_msg)

\* C6 amended: the candidate that starts leftmost in the message is
\* returned; the precedence quoted .pdf name > quoted string > bare .pdf
\* token decides only between candidates that start at that same position
C6_LeftmostFirst ==
    ex_out.done =>
        LET P == {i \in 1..Len(ex_msg) :
                    Alt1At(ex_msg, i).some \/ Alt2At(ex_msg, i).some
                        \/ Alt3At(ex_msg, i).some}
        IN  IF P = {} THEN ex_out.doc = None
            ELSE LET i == MinPos(P)
                 IN  ex_out.doc =
                        IF Alt1At(ex_msg, i).some THEN Alt1At(ex_msg, i)
                        ELSE IF Alt2At(ex_msg, i).some THEN Alt2At(ex_msg, i)
                        ELSE Alt3At(ex_msg, i)

\* a bare .pdf token that starts before a quoted string is returned
C6_Witness ==
    /\ ex_out.done
    /\ Alt3At(ex_msg, 1).some /\ ex_out.doc = Alt3At(ex_msg, 1)
    /\ ~Alt1At(ex_msg, 1).some /\ ~Alt2At(ex_msg, 1).some
    /\ \E i \in 2..Len(ex_msg) : Alt2At(ex_msg, i).some

\* C7: a step creates the state of the id it accesses if there is none,
\* seeded with the system message and turn_count 0 before the step's own
\* append; an existing state is kept as it is (only appended to, turn_count
\* only counted up) and the states of the other ids are untouched
C7_Idempotent ==
    [][\A c \in CIDs :
          /\ c \in DOMAIN conversation_states =>
                /\ c \in DOMAIN conversation_states'
                /\ IsPrefix(conversation_states[c].messages,
                            conversation_states'[c].messages)
                /\ Len(conversation_states'[c].messages)
                      <= Len(conversation_states[c].messages) + 1
                /\ conversation_states'[c].turn_count \in
                      {conversation_states[c].turn_count,
                       conversation_states[c].turn_count + 1}
          /\ (c \notin DOMAIN conversation_states /\ c \in DOMAIN conversation_states') =>
                /\ \E p \in Slots : calls'[p].cid = c /\ ~calls'[p].pre_exists
                /\ Len(conversation_states'[c].messages) = 2
                /\ conversation_states'[c].messages[1] = Message("system", SYSTEM_PROMPT)
                /\ conversation_states'[c].turn_count =
                      IF conversation_states'[c].messages[2].role = "user" THEN 1 ELSE 0
          /\ (\A p \in Slots : calls'[p].cid # c) =>
                /\ c \in DOMAIN conversation_states' <=> c \in DOMAIN conversation_states
                /\ c \in DOMAIN conversation_states =>
                      conversation_states'[c] = conversation_states[c]
      ]_vars

\* a later call found the state of its id and added to it
C7_Witness ==
    \E p \in Slots :
        /\ calls[p].pc = "done" /\ calls[p].pre_exists
        /\ Len(calls[p].pre_messages) >= 2
        /\ IsPrefix(calls[p].pre_messages, conversation_states[calls[p].cid].messages)
        /\ Len(conversation_states[calls[p].cid].messages) > Len(calls[p].pre_messages)

\* C8: every conversation starts with the system message, and whatever a
\* call found stored is still there, in place, whether the call is running,
\* returned or raised
C8_SystemFirst ==
    /\ \A c \in DOMAIN conversation_states :
          /\ Len(conversation_states[c].messages) >= 1
          /\ conversation_states[c].messages[1] = Message("system", SYSTEM_PROMPT)
    /\ \A p \in Slots :
          calls[p].pc # "idle" =>
              /\ calls[p].cid \in DOMAIN conversation_states
              /\ IsPrefix(BaseMessages(calls[p]),
                          conversation_states[calls[p].cid].messages)

\* a call raised on a conversation that already held messages
C8_Witness ==
    \E p \in Slots :
        /\ calls[p].pc = "done" /\ calls[p].status = "raised"
        /\ calls[p].pre_exists /\ Len(calls[p].pre_messages) >= 3
        /\ \E c \in DOMAIN conversation_states : c # calls[p].cid

\* C9 as stated: when the index is unavailable or the query fails the turn
\* goes on with an empty context and the oracle's reply is appended
C9_Original ==
    \A p \in Slots :
        LET call == calls[p]
        IN  (call.op = "process_message" /\ ~call.judgment
                /\ call.retrieval \in {"unavailable", "failed"}) =>
                /\ call.pc = "pm_oracle" =>
                      call.policy_context = GetContextOf(<< >>, DefaultMaxTokens)
                /\ call.pc = "done" => call.oracle # "none"
                /\ (call.pc = "done" /\ call.oracle = "text") =>
                      /\ call.status = "returned"
                      /\ LastMessage(call.cid) = Message("assistant", call.ret)

\* an ordinary turn whose oracle call failed
ReplyFailed(call) ==
    /\ call.pc = "done" /\ call.op = "process_message" /\ ~call.judgment
    /\ call.oracle = "raise"

\* C10: when the oracle call of an ordinary turn fails the call raises, the
\* conversation holds what it held plus the user message, turn_count is one
\* up, and a further turn on the conversation can be started
C10_OracleFailure ==
    \A p \in Slots :
        ReplyFailed(calls[p]) =>
            LET call == calls[p]
                st == conversation_states[call.cid]
            IN  /\ call.status = "raised"
                /\ st.messages = Append(BaseMessages(call), Message("user", call.message))
                /\ st.turn_count = call.pre_turn_count + 1
                /\ ncalls < MaxCalls =>
                      ENABLED (\E m \in UserMessages : ProcessMessageBegin(p, call.cid, m))

\* the oracle call failed on a conversation with earlier turns, and more
\* calls can follow
C10_Witness ==
    \E p \in Slots :
        /\ ReplyFailed(calls[p])
        /\ calls[p].pre_exists /\ calls[p].pre_turn_count >= 1
        /\ ncalls < MaxCalls

----------------------------------------------------------------------------
(* Claims C11 - C20 *)

\* a judgment whose schema-constrained oracle call was made and is over
JudgmentAsked(call) ==
    call.pc = "done" /\ call.judgment /\ call.oracle_calls = 1

\* C11 as stated: whenever the oracle call of make_judgment raises, returns
\* no content, non-JSON or invalid JSON, make_judgment returns the fallback
\* error message, appended as an assistant message, instead of raising
C11_Original ==
    \A p \in Slots :
        (JudgmentAsked(calls[p]) /\ calls[p].oracle # "valid") =>
            /\ calls[p].status = "returned"
            /\ Head(calls[p].ret) = "JUDGMENT PROCESSING ERROR: "
            /\ LastMessage(calls[p].cid) = Message("assistant", calls[p].ret)

\* a message posted through Orchestrator.process_message whose turn stored
\* the user message and an assistant reply
OrchTurnReplied(call) ==
    /\ call.pc = "done" /\ call.op = "orch_process_message"
    /\ LET msgs == conversation_states[call.cid].messages
       IN  /\ Len(msgs) = Len(BaseMessages(call)) + 2
           /\ msgs[Len(msgs) - 1] = Message("user", call.message)
           /\ msgs[Len(msgs)].role = "assistant"

\* C12 as stated: a message posted through Orchestrator.process_message
\* whose reply ChatManager.process_message produced and stored returns the
\* pair (that reply, flag); the call does not fail after the conversation
\* holds the user message and the reply
C12_Original ==
    \A p \in Slots :
        OrchTurnReplied(calls[p]) =>
            /\ calls[p].status = "returned"
            /\ Len(calls[p].ret) = 2
            /\ calls[p].ret[1] = LastMessage(calls[p].cid).content

\* C13 as stated: Orchestrator.process_judgment returns the decision fields
\* for a conversation that has exchanged messages, and its only error is
\* ValueError (not ready)
C13_Original ==
    \A p \in Slots :
        (calls[p].pc = "done" /\ calls[p].op = "orch_process_judgment") =>
            /\ calls[p].status = "raised" => calls[p].orch_exc = "ValueError"
            /\ (calls[p].pre_exists /\ UserTurns(calls[p].pre_messages) >= 1
                    /\ Len(calls[p].pre_messages) >= 3) =>
                  calls[p].status = "returned"

\* C14 as stated: every invocation of make_judgment, whatever preceded it,
\* makes exactly one oracle call and appends exactly one assistant message,
\* and with a valid output it returns a decision report
C14_Original ==
    \A p \in Slots :
        (calls[p].pc = "done" /\ calls[p].judgment) =>
            LET msgs == conversation_states[calls[p].cid].messages
            IN  /\ calls[p].oracle_calls = 1
                /\ Len(msgs) = calls[p].mj_len + 1
                /\ msgs[Len(msgs)].role = "assistant"
                /\ calls[p].oracle = "valid" =>
                      /\ calls[p].status = "returned"
                      /\ Contains(calls[p].ret, <<"[FINAL JUDGMENT]">>)

\* C15 as stated: an output whose severity is outside 0..3, or that has no
\* severity_label, is answered with the fallback, so every decision report
\* stored in a conversation shows a severity in 0..3
C15_Original ==
    /\ \A p \in Slots :
          (JudgmentAsked(calls[p]) /\ calls[p].oracle \in {"valid", "invalid"}
              /\ (calls[p].decision.severity \notin 0..3
                    \/ "severity_label" \notin calls[p].decision.present)) =>
              calls[p].ret = ErrorMessage("ValidationError")
    /\ \A c \in DOMAIN conversation_states :
          \A i \in 1..Len(conversation_states[c].messages) :
              LET msg == conversation_states[c].messages[i]
              IN  (msg.role = "assistant" /\ Contains(msg.content, <<"[FINAL JUDGMENT]">>)) =>
                      \E s \in 0..3 :
                          Contains(msg.content, <<"- severity: ", ToString(s), "nl">>)

\* the position of the one occurrence of symbol sym in text, 0 if it does
\* not occur exactly once
PosOf(text, sym) ==
    LET P == {i \in 1..Len(text) : text[i] = sym}
    IN  IF Cardinality(P) = 1 THEN CHOOSE i \in P : TRUE ELSE 0

\* the headings of the report in the order the claim gives
ReportHeadings ==
    <<"[FINAL JUDGMENT]", "- violation_type: ", "- severity: ", "- label: ",
      "- recommended_actions:", "- rationale:", "- policy_links:",
      "- confidence: ", "- needs_more_evidence: ">>

\* C16: on a valid output make_judgment appends exactly one assistant
\* message, equal to the report it returns; the report is the mismatch
\* disclaimer, if the requested document is not a substring of the retrieved
\* one, followed by the rendering that begins with the title and lists
\* violation types, severity, label, recommended actions, rationale, policy
\* links, confidence and needs-more-evidence in this order
C16_ReportFormat ==
    \A p \in Slots :
        JudgmentAccepted(calls[p]) =>
            LET call == calls[p]
                msgs == conversation_states[call.cid].messages
                A == call.requested_doc_id
                B == call.retrieved_doc_id
                w == IF NotSubstring(A, B) THEN JudgmentDisclaimer(A.val, B.val)
                     ELSE << >>
                body == SubSeq(call.ret, Len(w) + 1, Len(call.ret))
                d == call.decision
            IN  /\ call.status = "returned"
                /\ Len(msgs) = call.mj_len + 1
                /\ msgs[Len(msgs)] = Message("assistant", call.ret)
                /\ IsPrefix(w, call.ret)
                /\ Head(body) = "[FINAL JUDGMENT]"
                /\ \A i \in 1..Len(ReportHeadings) : PosOf(body, ReportHeadings[i]) > 0
                /\ \A i \in 1..(Len(ReportHeadings) - 1) :
                      PosOf(body, ReportHeadings[i]) < PosOf(body, ReportHeadings[i + 1])
                /\ IsPrefix(d.violation_type[1],
                            SubSeq(body, PosOf(body, "- violation_type: ") + 1, Len(body)))
                /\ body[PosOf(body, "- severity: ") + 1] = ToString(d.severity)
                /\ IsPrefix(d.severity_label,
                            SubSeq(body, PosOf(body, "- label: ") + 1, Len(body)))
                /\ IsPrefix(<<"nl", "  * ">> \o d.recommended_actions[1],
                            SubSeq(body, PosOf(body, "- recommended_actions:") + 1, Len(body)))
                /\ IsPrefix(<<"nl", "  ">> \o d.rationale,
                            SubSeq(body, PosOf(body, "- rationale:") + 1, Len(body)))
                /\ IsPrefix(<<"nl", "  * doc: ">> \o d.policy_links[1].doc_id,
                            SubSeq(body, PosOf(body, "- policy_links:") + 1, Len(body)))
                /\ SubSeq(body, PosOf(body, "- confidence: ") + 1,
                          PosOf(body, "- confidence: ") + 4) = <<"0", ".", "8", "0">>
                /\ body[Len(body)] = "False"
                /\ PosOf(body, "- needs_more_evidence: ") = Len(body) - 1

\* a valid judgment on a conversation whose requested document is not the
\* one retrieved: the report stored starts with the disclaimer
C16_Witness ==
    \E p \in Slots :
        /\ JudgmentAccepted(calls[p])
        /\ NotSubstring(calls[p].requested_doc_id, calls[p].retrieved_doc_id)
        /\ calls[p].warning_message # << >>
        /\ LastMessage(calls[p].cid).content = calls[p].ret

\* a call between its first step and its last
InFlight(call) == call.pc \in {"pm_retrieve", "pm_oracle", "mj_retrieve", "mj_oracle"}

\* C17: with process_message calls on one conversation id interleaved at
\* their awaits, in every reachable state turn_count is the number of
\* user-role messages stored, and both equal the number of turns begun, so
\* no append and no increment is lost or seen without the other
C17_AtomicTurn ==
    /\ \A c \in DOMAIN conversation_states :
          /\ conversation_states[c].turn_count = UserTurns(conversation_states[c].messages)
          /\ conversation_states[c].turn_count = ncalls
    /\ \A p \in ConcSlots :
          calls[p].pc # "idle" =>
              \E i \in 1..Len(conversation_states[calls[p].cid].messages) :
                  conversation_states[calls[p].cid].messages[i]
                      = Message("user", calls[p].message)

\* two turns of the conversation are in flight at once, the second begun
\* while the first was suspended at its oracle call
C17_Witness ==
    /\ \A p \in ConcSlots : InFlight(calls[p]) /\ calls[p].cid = "c1"
    /\ \E p, q \in ConcSlots :
          /\ ~calls[p].pre_exists /\ calls[q].pre_exists
          /\ calls[p].pc \in {"pm_oracle", "mj_oracle"}
    /\ conversation_states["c1"].turn_count = 2

\* C18 as stated: a turn whose message holds a trigger word goes to
\* make_judgment after the append and the increment, makes no free-text
\* oracle call and appends no nudge, returns what make_judgment returns and
\* appends exactly one assistant message, the report or the error
C18_Original ==
    \A p \in Slots :
        (calls[p].pc = "done" /\ calls[p].op = "process_message"
            /\ IsJudgmentRequest(calls[p].message)) =>
            LET call == calls[p]
                msgs == conversation_states[call.cid].messages
            IN  /\ call.judgment /\ call.oracle # "text"
                /\ ~Contains(call.ret, Nudge)
                /\ call.status = "returned"
                /\ Head(call.ret) = "JUDGMENT PROCESSING ERROR: "
                      \/ Contains(call.ret, <<"[FINAL JUDGMENT]">>)
                /\ msgs = BaseMessages(call)
                            \o <<Message("user", call.message),
                                 Message("assistant", call.ret)>>

\* the positions of the user messages whose extraction is not None
UserRequests(messages) ==
    {i \in 1..Len(messages) :
        /\ messages[i].role = "user"
        /\ _extract_doc_id_from_message(messages[i].content) # None}

\* the extraction of the latest user message that has one, else None
LatestUserRequest(messages) ==
    IF UserRequests(messages) = {} THEN None
    ELSE _extract_doc_id_from_message(
            messages[CHOOSE i \in UserRequests(messages) :
                        \A j \in UserRequests(messages) : j <= i].content)

\* C19: the document filter of make_judgment is the extraction of the latest
\* user message of the history that has one, None if there is none;
\* system and assistant messages do not contribute
C19_LastRequest ==
    \A p \in Slots :
        (calls[p].judgment /\ calls[p].pc # "idle") =>
            calls[p].requested_doc_id =
                LatestUserRequest(SubSeq(conversation_states[calls[p].cid].messages,
                                         1, calls[p].mj_len))

\* a judgment after two user messages that name different documents, with
\* an assistant message after them that itself holds a .pdf token
C19_Witness ==
    \E p \in Slots :
        /\ calls[p].judgment /\ calls[p].pc = "mj_retrieve"
        /\ LET msgs == conversation_states[calls[p].cid].messages
               U == UserRequests(msgs)
           IN  /\ \E i, j \in U :
                     /\ i < j /\ \A k \in U : k <= j
                     /\ _extract_doc_id_from_message(msgs[i].content)
                           # _extract_doc_id_from_message(msgs[j].content)
                     /\ calls[p].requested_doc_id
                           = _extract_doc_id_from_message(msgs[j].content)
                     /\ \E a \in (j + 1)..Len(msgs) :
                           /\ msgs[a].role = "assistant"
                           /\ _extract_doc_id_from_message(msgs[a].content) # None

\* the number of labeled passage blocks in a context
BlockCount(context) ==
    Cardinality({i \in 1..Len(context) : context[i] = "SRC: "})

\* C20 as stated: the context get_context returns holds at most 3 passage
\* blocks, also when more results fit in the budget
C20_Original == gc_out.done => BlockCount(gc_out.context) <= 3

----------------------------------------------------------------------------
(* Claims C21 - C26 *)

\* C21 as stated: when the search yields no results, get_context returns
\* an empty context, the document id derived from it is None, and the prompt
\* of the turn carries no retrieved-context text
C21_Original ==
    \A p \in Slots :
        (calls[p].pc \in {"pm_oracle", "mj_oracle"} /\ calls[p].retrieval = "unavailable")
            => /\ calls[p].policy_context = << >>
               /\ calls[p].retrieved_doc_id = None
               /\ ~Contains(calls[p].prompt, <<"Search found ">>)

\* the judgment requests among the user messages of a history
JudgmentRequests(messages) ==
    {i \in 1..Len(messages) :
        messages[i].role = "user" /\ IsJudgmentRequest(messages[i].content)}

\* the final reports among the messages of a history
Reports(messages) ==
    {i \in 1..Len(messages) :
        messages[i].role = "assistant"
            /\ Contains(messages[i].content, <<"[FINAL JUDGMENT]">>)}

\* C22: the turn state machine has no terminal state.  Whatever the
\* conversation went through (judgments that returned a report, judgments
\* and turns that failed), a slot that is not serving a call takes a further
\* process_message call with any message, and the call being served has
\* appended its user message to what the conversation held and is an
\* ordinary turn (at retrieval or at the reply oracle) iff its message holds
\* no trigger, a judgment over the whole history otherwise
C22_NoTerminalState ==
    \A p \in Slots :
        /\ (calls[p].pc \in {"idle", "done"} /\ ncalls < MaxCalls)
              => \A c \in ConcCIDs : \A m \in ConcMessages :
                    ENABLED ProcessMessageBegin(p, c, m)
        /\ calls[p].pc \notin {"idle", "done"}
              => LET call == calls[p]
                     st == conversation_states[call.cid]
                 IN  /\ st.messages = Append(BaseMessages(call), Message("user", call.message))
                     /\ st.turn_count = call.pre_turn_count + 1
                     /\ call.judgment = IsJudgmentRequest(call.message)
                     /\ call.judgment => /\ call.pc \in {"mj_retrieve", "mj_oracle"}
                                         /\ call.mj_len = Len(st.messages)
                     /\ ~call.judgment => call.pc \in {"pm_retrieve", "pm_oracle"}

\* after a judgment that returned a report and a judgment that failed, an
\* ordinary turn is being served
C22_Witness ==
    \E p \in Slots :
        /\ calls[p].pc = "pm_oracle"
        /\ Cardinality(JudgmentRequests(calls[p].pre_messages)) = 2
        /\ Cardinality(Reports(calls[p].pre_messages)) = 1
        /\ Len(calls[p].pre_messages) = 4

\* C23: an evidence notification is handled as any user message is.  The
\* call that posts the notification of file f has appended it with role
\* user to what the conversation held and counted one turn; it is a judgment
\* iff the file name holds a trigger word; the extractor is applied to the
\* notification (the request of the turn is the bare name "b.pdf"); and the
\* document filter of every judgment is the latest extraction over the user
\* messages, notifications included
C23_EvidenceNotification ==
    \A p \in Slots :
        LET call == calls[p]
            st == conversation_states[call.cid]
        IN  /\ \A f \in EvidenceFilenames :
                  (call.op = "orch_process_message"
                        /\ call.message = EvidenceNotification(f))
                     => /\ IsPrefix(Append(BaseMessages(call),
                                           Message("user", EvidenceNotification(f))),
                                    st.messages)
                        /\ call.pc \notin {"idle", "done"}
                              => st.turn_count = call.pre_turn_count + 1
                        /\ call.judgment = IsJudgmentRequest(f)
                        /\ ~call.judgment
                              => /\ call.requested_doc_id
                                       = _extract_doc_id_from_message(EvidenceNotification(f))
                                 /\ f = <<"b", "pdf">> => call.requested_doc_id = Some(f)
            /\ call.pc \in {"mj_retrieve", "mj_oracle"}
                  => call.requested_doc_id
                        = LatestUserRequest(SubSeq(st.messages, 1, call.mj_len))

\* a judgment asked for by an ordinary message is at its oracle call, the
\* conversation held the notification of "b.pdf" before, and the document
\* filter of the judgment is "b.pdf"
C23_Witness ==
    \E p \in Slots :
        /\ calls[p].pc = "mj_oracle"
        /\ calls[p].message \in OrchMessages
        /\ \E i \in 1..Len(calls[p].pre_messages) :
              calls[p].pre_messages[i]
                  = Message("user", EvidenceNotification(<<"b", "pdf">>))
        /\ calls[p].requested_doc_id = Some(<<"b", "pdf">>)

\* the complaint mentions one of the two keywords
MentionsKeyword(complaint) ==
    \E i \in 1..Len(complaint) : complaint[i] \in {"HOENGNYEONG", "BAEIM"}

\* C24 as stated: judge_report never raises; when the API call fails or its
\* answer is not JSON the result is the heuristic one (severity 2 with the
\* violation type of the rule iff the complaint mentions a keyword, severity
\* 0 otherwise); and in every returned judgement severity_label is the label
\* of the returned numeric severity
C24_Original ==
    jr_out.done =>
        /\ jr_out.status = "returned"
        /\ jr_api.kind \in {"raise", "nonjson"} =>
              /\ jr_out.result.severity
                    = IntValue(IF MentionsKeyword(jr_complaint) THEN 2 ELSE 0)
              /\ jr_out.result.violation_type
                    = IF MentionsKeyword(jr_complaint)
                      THEN << <<"BAEIM/HOENGNYEONG">> >> ELSE << >>
        /\ jr_out.result.severity_label
              = map_severity_label(jr_out.result.severity.v)

\* the call has its context back from get_context
ContextReturned(call) ==
    /\ call.pc \in {"pm_oracle", "mj_oracle", "done"}
    /\ call.retrieval \in {"ok", "unavailable"}

\* the prompt of the call carries a disclaimer where the code puts it: at
\* the start of context_prompt, at the start of the policy context of the
\* judgment prompt
PromptDisclaimed(call) ==
    IF call.judgment
    THEN Contains(call.prompt, <<"EVIDENCE FROM CHAT", "nl", "NOTE: user asked for '">>)
    ELSE call.prompt # << >> /\ Head(call.prompt) = "NOTE: requested '"

\* the judgment returned a text that starts with a disclaimer
ReportDisclaimed(call) ==
    /\ call.judgment /\ call.status = "returned"
    /\ call.ret # << >> /\ Head(call.ret) = "NOTE: user asked for '"

\* C25 as stated: whenever requested_doc_id is non-null the retrieved id is
\* None or equal to it, the mismatch warning is always empty and no
\* disclaimer is ever put in a prompt or a report
C25_Original ==
    \A p \in Slots :
        ContextReturned(calls[p]) =>
            /\ calls[p].requested_doc_id # None
                  => calls[p].retrieved_doc_id \in {None, calls[p].requested_doc_id}
            /\ calls[p].warning_message = << >>
            /\ ~PromptDisclaimed(calls[p])
            /\ ~ReportDisclaimed(calls[p])

\* C25, amended: with the exact-match filter the retrieved id is None or
\* the requested id stripped of leading and trailing blanks.  The warning is
\* non-empty exactly when the requested id has such blanks and a passage of
\* that source came back: then, and only then, the disclaimer is put in the
\* prompt, and a report starts with a disclaimer only then.  A requested id
\* without such blanks is retrieved as itself or not at all
C25_StrippedMatch ==
    \A p \in Slots :
        ContextReturned(calls[p]) =>
            LET call == calls[p]
                requested == call.requested_doc_id
                padded == Truthy(requested) /\ Strip(requested.val) # requested.val
            IN  /\ Truthy(requested) =>
                      call.retrieved_doc_id \in {None, Some(Strip(requested.val))}
                /\ (Truthy(requested) /\ ~padded) =>
                      call.retrieved_doc_id \in {None, requested}
                /\ call.warning_message # << >>
                      <=> (padded /\ Truthy(call.retrieved_doc_id))
                /\ call.pc # "done" =>
                      (PromptDisclaimed(call) <=> call.warning_message # << >>)
                /\ ReportDisclaimed(call) => call.warning_message # << >>

\* a turn asked for "b.pdf", passages of "b.pdf" came back, and the prompt
\* of the turn is built
C25_Witness ==
    \E p \in Slots :
        /\ calls[p].pc = "pm_oracle"
        /\ calls[p].requested_doc_id = Some(<<"b", "pdf">>)
        /\ calls[p].retrieved_doc_id = Some(<<"b", "pdf">>)
        /\ calls[p].warning_message = << >>

\* the text ends with the nudge
EndsWithNudge(text) ==
    Len(text) >= Len(Nudge) /\ SubSeq(text, Len(text) - Len(Nudge) + 1, Len(text)) = Nudge

\* the position of the call's own message among the user messages of its
\* conversation
OwnTurn(call) == call.pre_turn_count + 1

\* C26 as stated: with calls on one conversation id interleaved, the reply
\* of a turn carries the nudge iff the turn's own message was the third or a
\* later user message, whatever other turns appended while it was suspended
C26_Original ==
    \A p \in ConcSlots :
        (calls[p].pc = "done" /\ ~calls[p].judgment /\ calls[p].status = "returned")
            => (EndsWithNudge(calls[p].ret) <=> OwnTurn(calls[p]) >= NudgeThreshold)

\* C26, amended: the reply of a turn carries the nudge iff, at the step in
\* which the oracle's answer is taken, the conversation holds three or more
\* user messages, those of turns begun during the suspension included
C26_NudgeAtReply ==
    [][\A p \in ConcSlots :
          (calls[p].pc = "pm_oracle" /\ calls'[p].pc = "done"
                /\ calls'[p].status = "returned")
             => (EndsWithNudge(calls'[p].ret)
                    <=> UserTurns(conversation_states[calls[p].cid].messages)
                            >= NudgeThreshold)]_vars

\* a turn whose own message was the first of the conversation returned a
\* reply with the nudge
C26_Witness ==
    \E p \in ConcSlots :
        /\ calls[p].pc = "done" /\ calls[p].status = "returned"
        /\ OwnTurn(calls[p]) = 1
        /\ EndsWithNudge(calls[p].ret)

====
